---- MODULE Spec2Model ----
(***************************************************************************)
(* A model of the GitHub -> Feishu webhook relay (src/main.js).            *)
(*                                                                         *)
(* Strings whose characters matter (the signature header, the comment      *)
(* body) are sequences of code units; other strings are TLA+ strings.      *)
(* A missing JSON field or header is the value Undefined.                  *)
(***************************************************************************)
EXTENDS Integers, Sequences, FiniteSets, TLC

\* ------------------------------------------------------------------ bounds

\* Number of inbound requests in one run.
MaxReqs == 2

\* Hex digits of the modelled digest (SHA-256 has 64).
HexLen == 2

\* comment.body?.slice(0, 200) and comment.body?.length > 200
TruncLen == 200

Reqs == 1..MaxReqs

Undefined == "undefined"

\* JavaScript truthiness of a string-or-undefined value.
Falsy(v) == v \in {Undefined, ""}

\* v || d
OrElse(v, d) == IF Falsy(v) THEN d ELSE v

\* ------------------------------------------------- signature verification

\* "sha256="
ShaPrefix == <<115, 104, 97, 50, 53, 54, 61>>

HexChar(d) == IF d < 10 THEN 48 + d ELSE 87 + d

RECURSIVE Pow16(_)
Pow16(n) == IF n = 0 THEN 1 ELSE 16 * Pow16(n - 1)

RECURSIVE DigestHex(_, _)
\* .digest("hex"): n lower-case hex digits of the value v
DigestHex(v, n) ==
  IF n = 0 THEN <<>> ELSE DigestHex(v \div 16, n - 1) \o <<HexChar(v % 16)>>

SecretCode(s) == CASE s = "s1" -> 1 [] s = "s2" -> 2 [] OTHER -> 0

\* crypto.createHmac("sha256", secret).update(body): a keyed digest of the raw
\* body, here an injective mix of the secret and the body's identity.
Hmac(secret, body) == (SecretCode(secret) * 31 + body * 7 + 5) % Pow16(HexLen)

\* "sha256=" + hmac.digest("hex")
Expected(secret, body) == ShaPrefix \o DigestHex(Hmac(secret, body), HexLen)

\* UTF-8 encoding of one code unit of a header string (header bytes arrive as
\* latin1 characters, so a code unit is below 256).
Utf8(c) == IF c < 128 THEN <<c>> ELSE <<192 + (c \div 64), 128 + (c % 64)>>

RECURSIVE BufferFrom(_)
\* Buffer.from(string): the string's UTF-8 bytes
BufferFrom(s) == IF s = <<>> THEN <<>> ELSE Utf8(Head(s)) \o BufferFrom(Tail(s))

\* crypto.timingSafeEqual: throws a RangeError when the byte lengths differ
timingSafeEqual(a, b) ==
  IF Len(a) # Len(b) THEN "throws" ELSE IF a = b THEN "true" ELSE "false"

\* req.header(name) || "" for a header [present, value]
HeaderOrEmpty(h) == IF h.present THEN h.value ELSE <<>>

verifyGitHubSignature(header, body, secret) ==
  LET sig == HeaderOrEmpty(header)
      expected == Expected(secret, body)
  IN IF sig = <<>> \/ Len(sig) # Len(expected) THEN "false"
     ELSE timingSafeEqual(BufferFrom(sig), BufferFrom(expected))

\* ----------------------------------------------------------- configuration

\* String.prototype.trim on the tokens of the ALLOWED_REPOS variable
Trim(t) ==
  CASE t = " a/b " -> "a/b"
    [] t = " " -> ""
    [] OTHER -> t

\* new Set(env.split(",").map(trim).filter(Boolean)); tokens is the split list
ParseAllowedRepos(tokens) == {Trim(tokens[i]) : i \in DOMAIN tokens} \ {""}

\* The identity mapping is a function from its own keys to [id, name].
EmptyMapping == [k \in {} |-> [id |-> Undefined, name |-> Undefined]]

AliceMapping == [k \in {"alice"} |-> [id |-> "ou_alice", name |-> "Alice"]]

\* try { JSON.parse(env || "{}") } catch { {} }
LoadUserMapping(env) ==
  CASE env = "valid" -> AliceMapping
    [] env = "malformed" -> EmptyMapping
    [] OTHER -> EmptyMapping

\* Members every plain object inherits from Object.prototype.
ProtoKeys == {"constructor", "toString", "valueOf", "hasOwnProperty"}

\* Function.prototype.name of the inherited member
ProtoName(k) == IF k = "constructor" THEN "Object" ELSE k

\* USER_MAPPING[opener]: own entry, else inherited member, else undefined
IndexMapping(m, k) ==
  IF k \in DOMAIN m
    THEN [truthy |-> TRUE, id |-> m[k].id, name |-> m[k].name]
    ELSE IF k \in ProtoKeys
      THEN [truthy |-> TRUE, id |-> Undefined, name |-> ProtoName(k)]
      ELSE [truthy |-> FALSE, id |-> Undefined, name |-> Undefined]

\* ----------------------------------------------------------------- payloads

\* A string of n code units.
Chars(n) == [i \in 1..n |-> 97 + (i % 3)]

NoBody == [present |-> FALSE, chars |-> <<>>]

BodyOf(n) == [present |-> TRUE, chars |-> Chars(n)]

\* What JSON.parse yields for a body that is a JSON object.
Payload(action, repo, hasIssue, opener, sender, hasComment, commenter, cbody) ==
  [kind |-> "object", action |-> action, full_name |-> repo,
   hasIssue |-> hasIssue, number |-> "7", title |-> "Bug", html_url |-> "https://gh/i/7",
   opener |-> opener, sender |-> sender,
   hasComment |-> hasComment, commenter |-> commenter, cbody |-> cbody,
   comment_url |-> "https://gh/c/9"]

Full(action, repo) ==
  Payload(action, repo, TRUE, "alice", "carol", TRUE, "dave", BodyOf(3))

\* A body that is not JSON, and the JSON text null.
Malformed == [Full("closed", "a/b") EXCEPT !.kind = "SyntaxError"]

NullPayload ==
  [Payload(Undefined, Undefined, FALSE, Undefined, Undefined, FALSE, Undefined, NoBody)
     EXCEPT !.kind = "null"]

ActionOf == <<"closed", "created", "opened">>

RepoOf == <<"a/b", "a/c", Undefined>>

OpenerOf == <<"alice", "bob", "constructor", Undefined>>

SenderOf == <<"carol", Undefined>>

CommenterOf == <<"dave", Undefined>>

CommentBodyOf ==
  <<NoBody, BodyOf(0), BodyOf(TruncLen - 1), BodyOf(TruncLen),
    BodyOf(TruncLen + 1), BodyOf(TruncLen + 50)>>

GateFamily ==
  [i \in 1..9 |-> Full(ActionOf[((i - 1) % 3) + 1], RepoOf[((i - 1) \div 3) + 1])]

IssueFamily ==
  [i \in 1..8 |->
     Payload("closed", "a/b", TRUE, OpenerOf[((i - 1) % 4) + 1],
             SenderOf[((i - 1) \div 4) + 1], FALSE, Undefined, NoBody)]

CommentFamily ==
  [i \in 1..12 |->
     Payload("created", "a/b", TRUE, "alice", "carol", TRUE,
             CommenterOf[((i - 1) % 2) + 1], CommentBodyOf[((i - 1) \div 2) + 1])]

MissingObjectFamily ==
  <<Payload("closed", "a/b", FALSE, Undefined, "carol", FALSE, Undefined, NoBody),
    Payload("created", "a/b", FALSE, Undefined, "carol", TRUE, "dave", BodyOf(3)),
    Payload("created", "a/b", TRUE, "alice", "carol", FALSE, Undefined, NoBody)>>

\* The raw bodies of the model: a raw body is an index of this table, and
\* JSON.parse(req.body.toString("utf8")) is the table's entry.
BodyTable ==
  <<Malformed, NullPayload>> \o GateFamily \o IssueFamily \o CommentFamily
    \o MissingObjectFamily

JsonParse(body) == BodyTable[body]

\* -------------------------------------------------------------------- state

VARIABLES
  GITHUB_WEBHOOK_SECRET,  \* process.env.GITHUB_WEBHOOK_SECRET, or Undefined
  FEISHU_WEBHOOK_URL,     \* process.env.FEISHU_WEBHOOK_URL, or Undefined
  FEISHU_SIGN_SECRET,     \* process.env.FEISHU_SIGN_SECRET || ""
  ALLOWED_REPOS,          \* the allow-list, a set of repository names
  USER_MAPPING,           \* GitHub login -> [id, name]
  expressMajor,           \* the installed express: 4 leaves a rejected handler
                          \* promise unhandled, 5 answers it with a 500
  req,                    \* each request's headers and raw body
  pc,                     \* each request's position in the handler
  running,                \* the request whose handler holds the thread, or 0
  resp,                   \* each request's responses sent, in order
  job,                    \* the rendered message of an accepted request
  out,                    \* each request's outbound POSTs issued, in order
  task,                   \* each request's detached delivery task
  errlog,                 \* each request's console.error entries
  alive,                  \* the process is running
  sigArgs,                \* the last call of verifyGitHubSignature checked alone
  sigResult               \* and its result

config ==
  <<GITHUB_WEBHOOK_SECRET, FEISHU_WEBHOOK_URL, FEISHU_SIGN_SECRET, ALLOWED_REPOS,
    USER_MAPPING, expressMajor>>

vars ==
  <<GITHUB_WEBHOOK_SECRET, FEISHU_WEBHOOK_URL, FEISHU_SIGN_SECRET, ALLOWED_REPOS,
    USER_MAPPING, expressMajor, req, pc, running, resp, job, out, task, errlog,
    alive, sigArgs, sigResult>>

\* ---------------------------------------------------------------- rendering

\* ALLOWED_REPOS.size && !ALLOWED_REPOS.has(repo)
RepoRejected_NoSizeCheck(repo, list) == repo \notin list

RepoRejected(repo, list) == list # {} /\ repo \notin list

\* the contentLines of the issues.closed branch; mapped is USER_MAPPING[opener]
ContentLines_NoFallback(payload, mapped) ==
  <<[tag |-> "text", text |-> <<"Issue #", payload.number, " (U+5DF2 U+5173 U+95ED)\n">>],
    [tag |-> "text", text |-> <<payload.title, "\n">>],
    [tag |-> "a", text |-> "(U+67E5 U+770B U+8BE6 U+60C5)", href |-> payload.html_url],
    [tag |-> "text", text |-> <<"\nby ", payload.sender>>]>>
  \o (IF mapped.truthy
        THEN <<[tag |-> "text", text |-> <<"\n">>],
               [tag |-> "at", user_id |-> mapped.id, user_name |-> mapped.name]>>
        ELSE <<>>)

ContentLines(payload, mapped) ==
  <<[tag |-> "text", text |-> <<"Issue #", payload.number, " (U+5DF2 U+5173 U+95ED)\n">>],
    [tag |-> "text", text |-> <<payload.title, "\n">>],
    [tag |-> "a", text |-> "(U+67E5 U+770B U+8BE6 U+60C5)", href |-> payload.html_url],
    [tag |-> "text", text |-> <<"\nby ", OrElse(payload.sender, "unknown")>>]>>
  \o (IF mapped.truthy
        THEN <<[tag |-> "text", text |-> <<"\n">>],
               [tag |-> "at", user_id |-> mapped.id, user_name |-> mapped.name]>>
        ELSE <<>>)

\* the title template: U+2705, a space, and the repository in brackets
PostTitle(repo) == <<"(U+2705) [", repo, "]">>

\* comment.body?.slice(0, 200) || ""
BodySlice(cbody) ==
  IF ~cbody.present THEN <<>>
  ELSE SubSeq(cbody.chars, 1,
              IF Len(cbody.chars) < TruncLen THEN Len(cbody.chars) ELSE TruncLen)

\* comment.body?.length > 200 ? "..." : ""
Ellipsis_AtLimit(cbody) ==
  IF cbody.present /\ Len(cbody.chars) >= TruncLen THEN <<46, 46, 46>> ELSE <<>>

Ellipsis(cbody) ==
  IF cbody.present /\ Len(cbody.chars) > TruncLen THEN <<46, 46, 46>> ELSE <<>>

\* the text of the issue_comment.created branch, one element per template part
CommentText(payload, repo) ==
  <<"(U+1F4AC) [", repo, "] Issue #", payload.number, " (U+65B0 U+8BC4 U+8BBA)\n", payload.title, "\nby ",
    OrElse(payload.commenter, "unknown"), "\n\n",
    BodySlice(payload.cbody), Ellipsis(payload.cbody), "\n", payload.comment_url>>

\* ------------------------------------------------------------------ handler

Responded(status, text) ==
  [kind |-> "respond", status |-> status, text |-> text, job |-> <<>>]

Thrown == [kind |-> "throw", status |-> 0, text |-> "", job |-> <<>>]

\* an accepted request: res.status(202).send("Accepted"), then the send of j
Accepted_AnsweredIgnored(j) ==
  [kind |-> "accept", status |-> 200, text |-> "Ignored event", job |-> <<j>>]

Accepted(j) == [kind |-> "accept", status |-> 202, text |-> "Accepted", job |-> <<j>>]

\* lines 133-171: the routing and rendering of a payload that passed the filter
Route_AnyIssuesAction(event, payload, repo) ==
  IF event = "issues"
    THEN IF ~payload.hasIssue
           THEN Thrown
           ELSE Accepted([fn |-> "sendFeishuPost", title |-> PostTitle(repo),
                          contentLines |->
                            ContentLines(payload,
                              IndexMapping(USER_MAPPING, OrElse(payload.opener, "")))])
    ELSE IF event = "issue_comment" /\ payload.action = "created"
      THEN IF ~payload.hasIssue \/ ~payload.hasComment
             THEN Thrown
             ELSE Accepted([fn |-> "sendFeishuText", text |-> CommentText(payload, repo)])
      ELSE Responded(200, "Ignored event")

Route(event, payload, repo) ==
  IF event = "issues" /\ payload.action = "closed"
    THEN IF ~payload.hasIssue
           THEN Thrown \* issue.user of undefined
           ELSE Accepted([fn |-> "sendFeishuPost", title |-> PostTitle(repo),
                          contentLines |->
                            ContentLines(payload,
                              IndexMapping(USER_MAPPING, OrElse(payload.opener, "")))])
    ELSE IF event = "issue_comment" /\ payload.action = "created"
      THEN IF ~payload.hasIssue \/ ~payload.hasComment
             THEN Thrown \* issue.number or comment.user of undefined
             ELSE Accepted([fn |-> "sendFeishuText", text |-> CommentText(payload, repo)])
      ELSE Responded(200, "Ignored event")

\* lines 104-172 up to the response: what the handler does with request in
Handler_Dedup(in) ==
  IF Falsy(GITHUB_WEBHOOK_SECRET) \/ Falsy(FEISHU_WEBHOOK_URL)
    THEN Responded(500, "Server not configured")
    ELSE LET v == verifyGitHubSignature(in.sig, in.body, GITHUB_WEBHOOK_SECRET) IN
      IF v = "throws" THEN Thrown
      ELSE IF v = "false" THEN Responded(401, "Invalid signature")
      ELSE LET payload == JsonParse(in.body) IN
        IF payload.kind = "SyntaxError" THEN Responded(400, "Bad JSON")
        ELSE LET repo == OrElse(payload.full_name, "") IN
          IF RepoRejected(repo, ALLOWED_REPOS)
            THEN Responded(200, "Ignored repo")
            ELSE IF \E q \in Reqs : out[q] # <<>> /\ req[q].delivery = in.delivery
              THEN Responded(200, "Duplicate delivery")
              ELSE Route(OrElse(in.event, ""), payload, repo)

Handler(in) ==
  IF Falsy(GITHUB_WEBHOOK_SECRET) \/ Falsy(FEISHU_WEBHOOK_URL)
    THEN Responded(500, "Server not configured")
    ELSE LET v == verifyGitHubSignature(in.sig, in.body, GITHUB_WEBHOOK_SECRET) IN
      IF v = "throws" THEN Thrown
      ELSE IF v = "false" THEN Responded(401, "Invalid signature")
      ELSE LET payload == JsonParse(in.body) IN
        IF payload.kind = "SyntaxError" THEN Responded(400, "Bad JSON")
        ELSE LET repo == OrElse(payload.full_name, "") IN
          IF RepoRejected(repo, ALLOWED_REPOS)
            THEN Responded(200, "Ignored repo")
            ELSE Route(OrElse(in.event, ""), payload, repo)

\* ----------------------------------------------------------------- notifier

\* Math.floor(Date.now() / 1000).toString() at the time of a send
Times == {"1700000000", "1700000001"}

\* base64(HMAC-SHA256(key = secret, message = timestamp + "\n" + secret)), kept
\* as the term of its key and message
feishuSign(timestampSec, secret) ==
  <<"base64-hmac-sha256", secret, <<timestampSec, "\n", secret>>>>

\* if (FEISHU_SIGN_SECRET) { payload.timestamp = ts; payload.sign = ... }
Signed(payload, ts) ==
  IF Falsy(FEISHU_SIGN_SECRET) THEN payload
  ELSE payload @@ [timestamp |-> ts, sign |-> feishuSign(ts, FEISHU_SIGN_SECRET)]

\* the JSON body sendFeishuText posts
sendFeishuText(text, ts) ==
  Signed([msg_type |-> "text", content |-> [text |-> text]], ts)

\* the JSON body sendFeishuPost posts
sendFeishuPost_Unsigned(title, contentLines, ts) ==
  [msg_type |-> "post",
   content |-> [post |-> [zh_cn |-> [title |-> title, content |-> <<contentLines>>]]]]

sendFeishuPost(title, contentLines, ts) ==
  Signed([msg_type |-> "post",
          content |-> [post |-> [zh_cn |-> [title |-> title,
                                            content |-> <<contentLines>>]]]], ts)

OutboundBody(j, ts) ==
  IF j.fn = "sendFeishuPost"
    THEN sendFeishuPost(j.title, j.contentLines, ts)
    ELSE sendFeishuText(j.text, ts)

\* ------------------------------------------------------------------- inputs

Header(v) == [present |-> TRUE, value |-> v]

NoHeader == [present |-> FALSE, value |-> <<>>]

\* s with its i-th code unit replaced by c
Replace(s, i, c) == [s EXCEPT ![i] = c]

\* The signature headers a request may carry for body b, the sender signing
\* with "s1": none, the right one, one made with another secret, one of another
\* length, and one of the right length holding a non-ASCII character.
SigKinds(b) ==
  {NoHeader,
   Header(Expected("s1", b)),
   Header(Expected("s2", b)),
   Header(ShaPrefix),
   Header(Replace(Expected("s1", b), Len(ShaPrefix) + HexLen, 233))}

Events == {"issues", "issue_comment", "push", Undefined}

Request(sig, event, body) ==
  [sig |-> sig, event |-> event, delivery |-> "d1", body |-> body]

AllInputs ==
  UNION {{Request(h, e, b) : h \in SigKinds(b), e \in Events} : b \in DOMAIN BodyTable}

\* The raw body whose parse is p.
BodyWith(p) == CHOOSE b \in DOMAIN BodyTable : BodyTable[b] = p

MalformedBody == BodyWith(Malformed)

ClosedAB == BodyWith(Full("closed", "a/b"))

ClosedAC == BodyWith(Full("closed", "a/c"))

OpenedAB == BodyWith(Full("opened", "a/b"))

ClosedNoIssue == BodyWith(MissingObjectFamily[1])

CommentLong == BodyWith(CommentFamily[9])

\* The requests of the runs with several requests in flight: one per outcome.
CoreInputs ==
  {Request(Header(Expected("s1", ClosedAB)), "issues", ClosedAB),
   Request(Header(Expected("s1", CommentLong)), "issue_comment", CommentLong),
   Request(Header(Expected("s2", ClosedAB)), "issues", ClosedAB),
   Request(NoHeader, "issues", ClosedAB),
   Request(Header(Expected("s1", MalformedBody)), "issues", MalformedBody),
   Request(Header(Expected("s1", ClosedAC)), "issues", ClosedAC),
   Request(Header(Expected("s1", OpenedAB)), "issues", OpenedAB),
   Request(Header(Expected("s1", ClosedNoIssue)), "issues", ClosedNoIssue),
   Request(Header(Replace(Expected("s1", ClosedAB), Len(ShaPrefix) + HexLen, 233)),
           "issues", ClosedAB),
   [Request(Header(Expected("s1", ClosedAB)), "issues", ClosedAB)
      EXCEPT !.delivery = "d2"]}

NoRequest == Request(NoHeader, Undefined, MalformedBody)

\* The environment a process starts from.
Env(secret, url, sign, allow, mapping, express) ==
  [secret |-> secret, url |-> url, sign |-> sign, allow |-> allow,
   mapping |-> mapping, express |-> express]

AllEnvs ==
  {Env(s, u, g, a, m, x) :
     s \in {Undefined, "s1"}, u \in {Undefined, "https://feishu/hook"},
     g \in {"", "fs"}, a \in {<<"">>, <<" a/b ">>, <<"a/b", " ", "a/d">>},
     m \in {"unset", "valid", "malformed"}, x \in {4, 5}}

CoreEnvs ==
  {Env("s1", "https://feishu/hook", "fs", <<"">>, "valid", 4),
   Env("s1", "https://feishu/hook", "", <<" a/b ">>, "malformed", 5),
   Env(Undefined, "https://feishu/hook", "", <<"">>, "unset", 5)}

\* ------------------------------------------------------------------ actions

Response(status, text) == [status |-> status, text |-> text]

StartFrom(env) ==
  /\ GITHUB_WEBHOOK_SECRET = env.secret
  /\ FEISHU_WEBHOOK_URL = env.url
  /\ FEISHU_SIGN_SECRET = env.sign
  /\ ALLOWED_REPOS = ParseAllowedRepos(env.allow)
  /\ USER_MAPPING = LoadUserMapping(env.mapping)
  /\ expressMajor = env.express
  /\ req = [r \in Reqs |-> NoRequest]
  /\ pc = [r \in Reqs |-> "idle"]
  /\ running = 0
  /\ resp = [r \in Reqs |-> <<>>]
  /\ job = [r \in Reqs |-> <<>>]
  /\ out = [r \in Reqs |-> <<>>]
  /\ task = [r \in Reqs |-> "none"]
  /\ errlog = [r \in Reqs |-> 0]
  /\ alive = TRUE
  /\ sigArgs = [secret |-> "s1", body |-> MalformedBody, header |-> NoHeader]
  /\ sigResult = "unset"

\* A client sends request r; express.raw buffers its body.  Requests are
\* numbered in the order they arrive.
Arrive(r, in) ==
  /\ alive
  /\ pc[r] = "idle"
  /\ \A q \in Reqs : q < r => pc[q] # "idle"
  /\ req' = [req EXCEPT ![r] = in]
  /\ pc' = [pc EXCEPT ![r] = "received"]
  /\ UNCHANGED <<config, running, resp, job, out, task, errlog, alive, sigArgs, sigResult>>

\* The handler runs on a free thread.
CanRun(r) == alive /\ running = 0 /\ pc[r] = "received"

\* The handler answers 500, 401, 400 or 200 and returns.
HandleReject(r) ==
  /\ CanRun(r)
  /\ Handler(req[r]).kind = "respond"
  /\ resp' = [resp EXCEPT
       ![r] = Append(@, Response(Handler(req[r]).status, Handler(req[r]).text))]
  /\ pc' = [pc EXCEPT ![r] = "done"]
  /\ UNCHANGED <<config, req, running, job, out, task, errlog, alive, sigArgs, sigResult>>

\* The handler throws and express 5 passes the rejection to its error
\* handler, which answers 500.
HandleThrowCaught(r) ==
  /\ CanRun(r)
  /\ Handler(req[r]).kind = "throw"
  /\ expressMajor = 5
  /\ resp' = [resp EXCEPT ![r] = Append(@, Response(500, "Internal Server Error"))]
  /\ pc' = [pc EXCEPT ![r] = "done"]
  /\ UNCHANGED <<config, req, running, job, out, task, errlog, alive, sigArgs, sigResult>>

\* The handler throws under express 4: the async handler's promise rejects
\* with nothing handling it, no response is sent, and the unhandled rejection
\* ends the process.
HandleThrowUncaught(r) ==
  /\ CanRun(r)
  /\ Handler(req[r]).kind = "throw"
  /\ expressMajor = 4
  /\ pc' = [pc EXCEPT ![r] = "thrown"]
  /\ alive' = FALSE
  /\ UNCHANGED <<config, req, running, resp, job, out, task, errlog, sigArgs, sigResult>>

\* the response of an accepted request is sent before the send is called
RespondAccepted_Deferred(r) == resp' = resp

RespondAccepted(r) ==
  resp' = [resp EXCEPT
    ![r] = Append(@, Response(Handler(req[r]).status, Handler(req[r]).text))]

\* The handler accepts: it renders the message and answers 202 (up to line
\* 153, or 164), and keeps the thread for the send that follows.
HandleAccept(r) ==
  /\ CanRun(r)
  /\ Handler(req[r]).kind = "accept"
  /\ RespondAccepted(r)
  /\ job' = [job EXCEPT ![r] = Handler(req[r]).job]
  /\ pc' = [pc EXCEPT ![r] = "dispatch"]
  /\ running' = r
  /\ UNCHANGED <<config, req, out, task, errlog, alive, sigArgs, sigResult>>

\* sendFeishuPost(...) or sendFeishuText(...) up to its await: the payload is
\* built and signed and fetch issues the POST; the handler returns.
Dispatch(r) ==
  /\ alive
  /\ running = r
  /\ pc[r] = "dispatch"
  /\ \E ts \in Times :
       out' = [out EXCEPT ![r] = Append(@, OutboundBody(job[r][1], ts))]
  /\ task' = [task EXCEPT ![r] = "pending"]
  /\ pc' = [pc EXCEPT ![r] = "done"]
  /\ running' = 0
  /\ UNCHANGED <<config, req, resp, job, errlog, alive, sigArgs, sigResult>>

\* fetch resolves with resp.ok
FetchOk(r) ==
  /\ alive /\ running = 0
  /\ task[r] = "pending"
  /\ task' = [task EXCEPT ![r] = "delivered"]
  /\ UNCHANGED <<config, req, pc, running, resp, job, out, errlog, alive, sigArgs, sigResult>>

\* fetch resolves with a non-success status; the task awaits resp.text()
FetchNotOk(r) ==
  /\ alive /\ running = 0
  /\ task[r] = "pending"
  /\ task' = [task EXCEPT ![r] = "reading"]
  /\ UNCHANGED <<config, req, pc, running, resp, job, out, errlog, alive, sigArgs, sigResult>>

\* .catch((err) => console.error("Feishu send failed:", err))
DeliveryFailed_Retry(r) ==
  /\ errlog' = [errlog EXCEPT ![r] = @ + 1]
  /\ task' = [task EXCEPT ![r] = "pending"]
  /\ out' = [out EXCEPT ![r] = Append(@, out[r][1])]
  /\ UNCHANGED <<config, req, pc, running, resp, job, alive, sigArgs, sigResult>>

DeliveryFailed(r) ==
  /\ errlog' = [errlog EXCEPT ![r] = @ + 1]
  /\ task' = [task EXCEPT ![r] = "failed"]
  /\ UNCHANGED <<config, req, pc, running, resp, job, out, alive, sigArgs, sigResult>>

\* the error body is read (or its read fails) and the task throws
ErrorBodyRead(r) ==
  /\ alive /\ running = 0
  /\ task[r] = "reading"
  /\ DeliveryFailed(r)

\* fetch rejects: a network error
FetchRejects(r) ==
  /\ alive /\ running = 0
  /\ task[r] = "pending"
  /\ DeliveryFailed(r)

\* verifyGitHubSignature called on its own
VerifyCall(secret, body, header) ==
  /\ sigResult = "unset"
  /\ sigArgs' = [secret |-> secret, body |-> body, header |-> header]
  /\ sigResult' = verifyGitHubSignature(header, body, secret)
  /\ UNCHANGED <<config, req, pc, running, resp, job, out, task, errlog, alive>>

\* ----------------------------------------------------------- specifications

Init == \E env \in CoreEnvs : StartFrom(env)

Step(r) ==
  \/ HandleReject(r)
  \/ HandleThrowCaught(r)
  \/ HandleThrowUncaught(r)
  \/ HandleAccept(r)
  \/ Dispatch(r)
  \/ FetchOk(r)
  \/ FetchNotOk(r)
  \/ ErrorBodyRead(r)
  \/ FetchRejects(r)

Next ==
  \E r \in Reqs :
    \/ \E in \in CoreInputs : Arrive(r, in)
    \/ Step(r)

\* Several requests in flight, one request per outcome of the handler.
Spec == Init /\ [][Next]_vars

InitOne == \E env \in AllEnvs : StartFrom(env)

NextOne ==
  \/ \E in \in AllInputs : Arrive(1, in)
  \/ Step(1)

\* One request, every environment and every request of the model.
SpecOne == InitOne /\ [][NextOne]_vars

Secrets == {"s1", "s2"}

\* Characters a byte of the header is changed to.
MutChars == {48, 102, 103, 233}

\* The headers verifyGitHubSignature is called with, e being the expected
\* header: none, empty, e under either secret, every change of one character
\* of e, and e shortened and lengthened.
SigCandidates(body, secret) ==
  LET e == Expected(secret, body) IN
    {NoHeader, Header(<<>>), Header(SubSeq(e, 1, Len(e) - 1)), Header(e \o <<48>>)}
    \cup {Header(Expected(s, body)) : s \in Secrets}
    \cup {Header(Replace(e, i, c)) : i \in 1..Len(e), c \in MutChars}

InitSig == StartFrom(Env("s1", "https://feishu/hook", "", <<"">>, "unset", 4))

NextSig ==
  \E secret \in Secrets, body \in DOMAIN BodyTable :
    \E header \in SigCandidates(body, secret) : VerifyCall(secret, body, header)

\* verifyGitHubSignature on its own, over secrets, bodies and headers.
SpecSig == InitSig /\ [][NextSig]_vars

\* ------------------------------------------------------------------- claims

\* The handler has returned (or thrown) for request r.
Handled(r) == pc[r] \in {"done", "thrown"}

Configured == ~Falsy(GITHUB_WEBHOOK_SECRET) /\ ~Falsy(FEISHU_WEBHOOK_URL)

\* The header is the signature of the request's body under the configured secret.
RightlySigned(in) ==
  in.sig.present /\ in.sig.value = Expected(GITHUB_WEBHOOK_SECRET, in.body)

IsJson(in) == BodyTable[in.body].kind # "SyntaxError"

RepoName(in) == OrElse(BodyTable[in.body].full_name, "")

PassesAllowList(in) == ALLOWED_REPOS = {} \/ RepoName(in) \in ALLOWED_REPOS

Pair(in) == <<OrElse(in.event, ""), BodyTable[in.body].action>>

Recognized(in) == Pair(in) \in {<<"issues", "closed">>, <<"issue_comment", "created">>}

\* The status the gates give a request, the first failing gate deciding.
GateStatus(in) ==
  IF ~Configured THEN 500
  ELSE IF ~RightlySigned(in) THEN 401
  ELSE IF ~IsJson(in) THEN 400
  ELSE IF ~PassesAllowList(in) THEN 200
  ELSE IF ~Recognized(in) THEN 200
  ELSE 202

Statuses(r) == [i \in DOMAIN resp[r] |-> resp[r][i].status]

\* C1: every request is answered with the status of the first gate that fails,
\* in the order 500, 401, 400, 200 (repository), 200 (event), else 202.
C1_GateOrder == \A r \in Reqs : Handled(r) => Statuses(r) = <<GateStatus(req[r])>>

\* C2: an outbound POST is issued only for a request answered 202; a request
\* answered 500, 401, 400 or 200 causes none.
C2_PostOnlyFor202 ==
  \A r \in Reqs :
    /\ (out[r] # <<>> \/ task[r] # "none") => Statuses(r) = <<202>>
    /\ (Handled(r) /\ Statuses(r) # <<202>>) => (out[r] = <<>> /\ task[r] = "none")

\* C2's case: a request was answered 401 and posted nothing, while another
\* request's POST went out.
C2_Witness ==
  \E r, q \in Reqs :
    /\ Handled(r) /\ Statuses(r) = <<401>> /\ out[r] = <<>>
    /\ Len(out[q]) = 1

IsPost(m) == m.msg_type = "post"

\* C3: a rightly signed issues/closed request whose repository passes the
\* allow-list is answered 202 and causes exactly one outbound POST, a post
\* message titled with the repository's full name.
C3_ClosedNotifiesOnce ==
  \A r \in Reqs :
    (/\ Handled(r) /\ Configured /\ RightlySigned(req[r]) /\ IsJson(req[r])
     /\ PassesAllowList(req[r]) /\ Pair(req[r]) = <<"issues", "closed">>)
    => /\ Statuses(r) = <<202>>
       /\ Len(out[r]) = 1
       /\ IsPost(out[r][1])
       /\ out[r][1].content.post.zh_cn.title = <<"(U+2705) [", RepoName(req[r]), "]">>

\* C4: the 202 of an accepted request is sent before its outbound POST is
\* issued, and no step of the delivery task (its start, its completion, its
\* failure) touches the response: the response is there while the call hangs.
C4_ResponseBeforeDelivery ==
  [][\A r \in Reqs :
       (out'[r] # out[r] \/ task'[r] # task[r])
       => (Statuses(r) = <<202>> /\ resp'[r] = resp[r])]_vars

\* C4's case: the 202 is out and the outbound call is still in flight.
C4_Witness == \E r \in Reqs : task[r] = "pending" /\ Statuses(r) = <<202>>

\* C5: a failed delivery is one error-log entry and nothing else: the 202
\* stays, the POST is not issued again, and the server goes on serving.
C5_FailureOnlyLogged ==
  /\ [](\A r \in Reqs :
          /\ Len(out[r]) <= 1
          /\ errlog[r] >= 1 =>
               (errlog[r] = 1 /\ task[r] = "failed" /\ Statuses(r) = <<202>>
                /\ Len(out[r]) = 1))
  /\ [][\A r \in Reqs :
          /\ (task'[r] = "failed" /\ task[r] # "failed") => errlog'[r] # errlog[r]
          /\ errlog'[r] # errlog[r] =>
               /\ errlog'[r] = errlog[r] + 1 /\ task'[r] = "failed"
               /\ resp' = resp /\ out' = out
               /\ alive' /\ running' = 0 /\ pc' = pc
          /\ task[r] = "failed" => (task'[r] = "failed" /\ out'[r] = out[r])]_vars

\* C5's case: a delivery has failed and been logged, and a later request is
\* being served.
C5_Witness ==
  \E r, q \in Reqs :
    /\ r < q /\ task[r] = "failed" /\ errlog[r] = 1 /\ Len(out[r]) = 1
    /\ alive /\ pc[q] = "received"

SigIn == HeaderOrEmpty(sigArgs.header)

SigWant == Expected(sigArgs.secret, sigArgs.body)

\* C6: verification returns false, and does not throw, for every header that
\* is not the expected one: absent, of another length, or of the same length
\* with other content.
C6_FalseNeverThrows == (sigResult # "unset" /\ SigIn # SigWant) => sigResult = "false"

\* The header differs from the expected one in exactly one position.
OneByteMutation ==
  /\ Len(SigIn) = Len(SigWant)
  /\ Cardinality({i \in DOMAIN SigWant : SigIn[i] # SigWant[i]}) = 1

\* C7: verification of the signature computed for the body and secret returns
\* true, and of any single-byte mutation of it returns false.
C7_RoundTripAndMutation ==
  sigResult # "unset" =>
    /\ SigIn = SigWant => sigResult = "true"
    /\ OneByteMutation => sigResult = "false"

Segments(m) == m.content.post.zh_cn.content[1]

Mentions(m) == {i \in DOMAIN Segments(m) : Segments(m)[i].tag = "at"}

Opener(in) == OrElse(BodyTable[in.body].opener, "")

\* C8: an issues/closed message has a mention segment only if the identity
\* mapping has an entry for the opener, and then its last segment is a mention
\* of that entry's recipient id.
C8_MentionOnlyIfMapped ==
  \A r \in Reqs :
    (out[r] # <<>> /\ IsPost(out[r][1])) =>
      LET m == out[r][1] IN
        IF Opener(req[r]) \in DOMAIN USER_MAPPING
          THEN /\ Mentions(m) = {Len(Segments(m))}
               /\ Segments(m)[Len(Segments(m))].user_id = USER_MAPPING[Opener(req[r])].id
          ELSE Mentions(m) = {}

\* The comment body as the text message shows it.
ShownBody(m) == m.content.text[10] \o m.content.text[11]

CommentBody(in) == BodyTable[in.body].cbody

\* C9: a comment body longer than 200 is shown as its first 200 characters and
\* "...", one of 200 or fewer unchanged, a missing one as the empty string; the
\* request is accepted in each case.
C9_Truncation ==
  \A r \in Reqs :
    (out[r] # <<>> /\ ~IsPost(out[r][1])) =>
      LET b == CommentBody(req[r])
          shown == ShownBody(out[r][1])
      IN /\ Statuses(r) = <<202>>
         /\ ~b.present => shown = <<>>
         /\ (b.present /\ Len(b.chars) <= 200) => shown = b.chars
         /\ (b.present /\ Len(b.chars) > 200) =>
              /\ Len(shown) = 203
              /\ \A i \in 1..200 : shown[i] = b.chars[i]
              /\ \A i \in 201..203 : shown[i] = 46

\* C9's case: a body of 250 characters went out as 200 characters and "...".
C9_Witness ==
  \E r \in Reqs :
    /\ out[r] # <<>> /\ ~IsPost(out[r][1])
    /\ Len(CommentBody(req[r]).chars) = 250
    /\ Len(ShownBody(out[r][1])) = 203

\* The request reached the repository filter.
ReachedFilter(r) ==
  Handled(r) /\ Configured /\ RightlySigned(req[r]) /\ IsJson(req[r])

FilterRejected(r) == resp[r] = <<Response(200, "Ignored repo")>>

\* C10: the filter lets a request through exactly when the allow-list is empty
\* or holds the payload's repository name; a request it stops is answered 200
\* and notifies nobody.
C10_AllowList ==
  \A r \in Reqs :
    ReachedFilter(r) =>
      /\ FilterRejected(r) <=>
           (ALLOWED_REPOS # {} /\ BodyTable[req[r].body].full_name \notin ALLOWED_REPOS)
      /\ FilterRejected(r) => out[r] = <<>>
      /\ ALLOWED_REPOS = {} => ~FilterRejected(r)

\* C10's case: with an empty allow-list a payload naming no repository passed
\* the filter and was accepted.
C10_Witness ==
  \E r \in Reqs :
    /\ ReachedFilter(r) /\ ALLOWED_REPOS = {}
    /\ BodyTable[req[r].body].full_name = Undefined
    /\ Statuses(r) = <<202>>

\* The handler renders the request's payload without a missing object.
Renderable(in) ==
  /\ Pair(in) = <<"issues", "closed">> => BodyTable[in.body].hasIssue
  /\ Pair(in) = <<"issue_comment", "created">> =>
       (BodyTable[in.body].hasIssue /\ BodyTable[in.body].hasComment)

\* The handler has run to its end on a request that passes every gate.
AcceptedDone(r) == pc[r] = "done" /\ GateStatus(req[r]) = 202 /\ Renderable(req[r])

\* The accepted deliveries of r's event under r's delivery id.
Redeliveries(r) ==
  {q \in Reqs : /\ AcceptedDone(q)
                /\ req[q].delivery = req[r].delivery
                /\ req[q].event = req[r].event
                /\ req[q].body = req[r].body}

RECURSIVE Posts(_)
\* The outbound POSTs issued for the requests of S.
Posts(S) ==
  IF S = {} THEN 0
  ELSE LET r == CHOOSE q \in S : TRUE IN Len(out[r]) + Posts(S \ {r})

\* C11: nothing is deduplicated by delivery id: n accepted deliveries of one
\* event under one delivery id are each answered 202 and cause n outbound
\* POSTs between them.
C11_NoDedup ==
  \A r \in Reqs :
    AcceptedDone(r) =>
      /\ \A q \in Redeliveries(r) : Statuses(q) = <<202>> /\ Len(out[q]) = 1
      /\ Posts(Redeliveries(r)) = Cardinality(Redeliveries(r))

\* C11's case: one event delivered twice under one delivery id, both accepted
\* and both notified.
C11_Witness ==
  \E r, q \in Reqs :
    /\ r # q /\ q \in Redeliveries(r)
    /\ Posts({r, q}) = 2

\* What a run holding only this request answers it.
AloneResponses(in) ==
  IF Handler(in).kind = "throw"
    THEN IF expressMajor = 5
           THEN <<Response(500, "Internal Server Error")>>
           ELSE <<>>
    ELSE <<Response(Handler(in).status, Handler(in).text)>>

\* What a run holding only this request posts, at one of the send times.
AloneMessages(in) ==
  IF Handler(in).kind = "accept"
    THEN {<<OutboundBody(Handler(in).job[1], ts)>> : ts \in Times}
    ELSE {<<>>}

\* C12: requests in flight together do not interfere: once a request's handler
\* has run, or the run has ended, its responses and its outbound message are
\* those of the request handled alone; and no step writes the configuration.
C12_NoInterference ==
  /\ [](\A r \in Reqs :
          /\ (pc[r] # "idle" /\ (Handled(r) \/ ~alive))
               => resp[r] = AloneResponses(req[r])
          /\ pc[r] = "done" => out[r] \in AloneMessages(req[r]))
  /\ [][config' = config]_vars

SignFields == {"timestamp", "sign"}

\* The outbound payload carries a timestamp and the signature made from it.
SignedWith(m, secret) ==
  /\ SignFields \subseteq DOMAIN m
  /\ m.timestamp \in Times
  /\ m.sign = <<"base64-hmac-sha256", secret, <<m.timestamp, "\n", secret>>>>

\* C13: with an outbound signing secret configured every outbound payload,
\* text or post, carries a timestamp and the sign computed from that timestamp
\* and the secret; with none configured no payload carries either field.
C13_SigningAllOrNothing ==
  \A r \in Reqs :
    \A i \in DOMAIN out[r] :
      /\ out[r][i].msg_type \in {"text", "post"}
      /\ IF FEISHU_SIGN_SECRET # ""
           THEN SignedWith(out[r][i], FEISHU_SIGN_SECRET)
           ELSE DOMAIN out[r][i] \cap SignFields = {}

\* C13's case: a post message and a text message both went out signed.
C13_Witness ==
  \E r, q \in Reqs :
    /\ out[r] # <<>> /\ out[r][1].msg_type = "post"
    /\ out[q] # <<>> /\ out[q][1].msg_type = "text"
    /\ FEISHU_SIGN_SECRET # ""
    /\ SignedWith(out[r][1], FEISHU_SIGN_SECRET)
    /\ SignedWith(out[q][1], FEISHU_SIGN_SECRET)

\* The places of a post message that read "unknown".
UnknownsInPost(m) ==
  {<<i, k>> \in (DOMAIN Segments(m)) \X (1..2) :
     /\ Segments(m)[i].tag = "text"
     /\ k \in DOMAIN Segments(m)[i].text
     /\ Segments(m)[i].text[k] = "unknown"}

\* The places of a text message, before the comment body, that read "unknown".
UnknownsInText(m) == {k \in 1..9 : m.content.text[k] = "unknown"}

Unknowns(m) ==
  IF IsPost(m) THEN Cardinality(UnknownsInPost(m)) ELSE Cardinality(UnknownsInText(m))

\* The names the code puts into the message, and those the claim speaks of.
RenderedLogins(in) ==
  IF Pair(in) = <<"issues", "closed">>
    THEN <<BodyTable[in.body].sender>>
    ELSE <<BodyTable[in.body].commenter>>

AttributionLogins(in) ==
  IF Pair(in) = <<"issues", "closed">>
    THEN <<BodyTable[in.body].sender, BodyTable[in.body].opener>>
    ELSE <<BodyTable[in.body].commenter>>

Missing(logins) == Cardinality({i \in DOMAIN logins : Falsy(logins[i])})

\* C14 as stated: an accepted event with a missing sender, opener or commenter
\* login is answered 202 and notified once, each missing name reading "unknown".
C14_EachMissingNameUnknown ==
  \A r \in Reqs :
    AcceptedDone(r) =>
      /\ Statuses(r) = <<202>> /\ Len(out[r]) = 1
      /\ Unknowns(out[r][1]) = Missing(AttributionLogins(req[r]))

\* C14, amended: an accepted event with a missing sender, opener or commenter
\* login is answered 202 and notified once; a missing sender or commenter reads
\* "unknown" where the name would stand; the opener's name stands nowhere in
\* the message, and a missing opener is looked up as the empty login, which
\* gives a mention only if the mapping has an entry for it.
C14_MissingLogins ==
  \A r \in Reqs :
    AcceptedDone(r) =>
      /\ Statuses(r) = <<202>> /\ Len(out[r]) = 1
      /\ Unknowns(out[r][1]) = Missing(RenderedLogins(req[r]))
      /\ IsPost(out[r][1]) =>
           /\ Segments(out[r][1])[4].text =
                <<"\nby ", IF Falsy(BodyTable[req[r].body].sender)
                             THEN "unknown" ELSE BodyTable[req[r].body].sender>>
           /\ (Falsy(BodyTable[req[r].body].opener) /\ "" \notin DOMAIN USER_MAPPING)
                => Mentions(out[r][1]) = {}
      /\ ~IsPost(out[r][1]) =>
           out[r][1].content.text[8] =
             (IF Falsy(BodyTable[req[r].body].commenter)
                THEN "unknown" ELSE BodyTable[req[r].body].commenter)

\* C14's case: an issues/closed event with neither sender nor opener login was
\* accepted and its message reads "by unknown".
C14_Witness ==
  \E r \in Reqs :
    /\ AcceptedDone(r) /\ Pair(req[r]) = <<"issues", "closed">>
    /\ Missing(AttributionLogins(req[r])) = 2
    /\ Len(out[r]) = 1
    /\ Segments(out[r][1])[4].text = <<"\nby ", "unknown">>

\* C15: a notification goes out only for the pairs (issues, closed) and
\* (issue_comment, created), and for both of them; the pair decides the kind:
\* issues/closed is a post message, issue_comment/created a text message, which
\* is one text and holds no segments, so no mention.
C15_PairDecidesKind ==
  \A r \in Reqs :
    /\ out[r] # <<>> =>
         /\ Recognized(req[r])
         /\ Pair(req[r]) = <<"issues", "closed">> =>
              (out[r][1].msg_type = "post" /\ DOMAIN out[r][1].content = {"post"})
         /\ Pair(req[r]) = <<"issue_comment", "created">> =>
              (out[r][1].msg_type = "text" /\ DOMAIN out[r][1].content = {"text"})
    /\ AcceptedDone(r) => Len(out[r]) = 1

\* C15's case: a new comment on an issue whose opener has a mapping entry went
\* out as a text message.
C15_Witness ==
  \E r \in Reqs :
    /\ out[r] # <<>> /\ Pair(req[r]) = <<"issue_comment", "created">>
    /\ Opener(req[r]) \in DOMAIN USER_MAPPING
    /\ out[r][1].msg_type = "text"

\* C16: every handled request has exactly one response, with a status among
\* 500, 401, 400, 200 and 202, also when a recognized pair's payload lacks the
\* issue or the comment object.
C16_ExactlyOneResponse ==
  \A r \in Reqs :
    Handled(r) =>
      /\ Len(resp[r]) = 1
      /\ resp[r][1].status \in {500, 401, 400, 200, 202}

====
